---- MODULE Spec2Model ----
(***************************************************************************)
(* A model of the DockerHub MCP server's core:                             *)
(*   - SmartCache (TTL + LRU cache) and CachedDockerHubAPI,                *)
(*   - SmartCache.generateKey,                                             *)
(*   - the unauthorized -> authorized fallback of the dockerhubFunctions.  *)
(*                                                                         *)
(* JavaScript runs the handlers on one event loop: a handler runs without  *)
(* interruption up to its next `await`, so every action below is the code  *)
(* between two suspension points.                                          *)
(***************************************************************************)
EXTENDS Integers, Sequences, FiniteSets, Bags, TLC

(***************************************************************************)
(* Bounds of the model.                                                    *)
(***************************************************************************)
NumKeys == 2        \* distinct cache keys in play
Capacity == 1       \* config.maxSize of the cache instance
NumLruKeys == 3     \* keys in play in the eviction scenarios
LruCapacity == 2    \* config.maxSize in the eviction scenarios
MaxRequests == 3    \* get calls made on the cache (caps requestCounter)
MaxTicks == 2       \* clock advances, each of one ClockStep
MaxPending == 1     \* get calls suspended in their fetch at one time
MaxPreload == 1     \* length of a preload list
MaxParams == 3      \* properties of a generateKey params object
MaxToolCalls == 2   \* calls of a tool handler, one after the other
MaxPages == 2       \* pages docker_list_tags reads in one call
MaxPreloadList == 2 \* length of a preload list in the preload scenarios
MaxLimited == 3     \* requests handed to RateLimitManager.executeRequest
MaxClockSteps == 2  \* advances of the RateLimitManager's clock
maxRequestsPerHour == 3     \* RateLimitConfig the manager is constructed with
maxConcurrentRequests == 2
queueMaxSize == 1

(***************************************************************************)
(* Program constants (milliseconds).                                       *)
(***************************************************************************)
defaultTTL == 1800000

ttlStrategies ==
    [ imageMetadata   |-> 3600000,
      repositoryInfo  |-> 3600000,
      tags            |-> 1800000,
      searchResults   |-> 900000,
      downloadStats   |-> 1800000,
      vulnerabilities |-> 7200000,
      manifest        |-> 600000,
      layers          |-> 600000,
      dockerfile      |-> 3600000,
      bearerTokens    |-> 270000,
      rateLimit       |-> 60000 ]

(***************************************************************************)
(* Inputs.  Keys are the non-empty strings generateKey builds, named by    *)
(* number; NoKey stands for the empty string evictLRU starts from.         *)
(***************************************************************************)
Keys == 1..NumKeys
LruKeys == 1..NumLruKeys
AllKeys == Keys \cup LruKeys
NoKey == 0
Vals == {"v1", "v2"}
ClockStep == ttlStrategies.manifest         \* granularity of the clock
SetTTLs == {0}                              \* 0: ttl omitted
PreloadTypes == {"tags"}
Infinity == MaxRequests + 1                 \* above every access stamp

VARIABLES
    config,         \* CacheConfig: the maxSize the cache was constructed with
    cache,          \* Map<string, CacheEntry>: key -> entry or NoEntry
    accessOrder,    \* Map<string, number> in insertion order: <<[key, stamp]>>
    stats,          \* CacheStats (counters and entry count)
    requestCounter, \* this.requestCounter
    now,            \* Date.now()
    pending,        \* bag of get calls suspended at `await fetchFn()`
    preload,        \* the running preload: one record per list item
    fetchCalls,     \* per key: how often a get invoked its fetchFn
    lastOp,         \* the operation that ran last and what it returned
    inserted,       \* keys inserted so far in an insert-only history
    pure            \* the history so far is insert-only (see NoteTouch)

VARIABLES
    gk              \* a generateKey experiment: op, two params objects, two keys

VARIABLES
    fb              \* one call of a fallback operation of dockerhubFunctions

VARIABLES
    th              \* the calls of one tool handler

VARIABLES
    recency         \* the stored keys by last touch, oldest first (when tracked)

VARIABLES
    rl              \* a RateLimitManager, its callers and its timers

cacheVars == <<config, cache, accessOrder, stats, requestCounter, now, pending,
               preload, fetchCalls, lastOp, inserted, pure, recency>>

vars == <<cacheVars, gk, fb, th, rl>>

NoEntry == [data |-> "none", timestamp |-> 0, ttl |-> 0]

\* no generateKey experiment, no fallback call under way
NoExperiment == [op |-> "none", p1 |-> <<>>, p2 |-> <<>>, key1 |-> <<>>, key2 |-> <<>>]

NoResult == [kind |-> "none", msg |-> "", status |-> -1]

NoCall ==
    [pc |-> "idle", op |-> "none", token |-> "undefined", path |-> "none",
     first |-> -1, firstBody |-> "none", exchanges |-> 0, authRequests |-> 0,
     issued |-> "none", basic |-> "none", exchangeThrew |-> FALSE,
     requests |-> <<>>, atFail |-> -1, retryFails |-> 0, probes |-> 0,
     page |-> 0, repos |-> FALSE, result |-> NoResult,
     text |-> {}]

\* no RateLimitManager constructed
NoLimiter == [made |-> FALSE]

\* no tool handler called yet; env: DOCKERHUB_TOKEN and DOCKERHUB_USERNAME set
NoToolCall ==
    [pc |-> "idle", tool |-> "none", env |-> FALSE, calls |-> 0, upstream |-> 0,
     atCall |-> 0, failed |-> FALSE, page |-> 1, tags |-> FALSE,
     firstOk |-> FALSE, firstAt |-> 0,
     inTTL |-> FALSE, envelope |-> [text |-> "none", payload |-> "none"]]

InCache(c, k) == c[k] # NoEntry

Size(c) == Cardinality({k \in AllKeys : InCache(c, k)})

\* the claim's notion of an expired entry: now >= timestamp + ttl
Expired(e, t) == t >= e.timestamp + e.ttl

\* get's test `(cached.timestamp + cached.ttl) > now`
IsFreshMutGe(e, t) == (e.timestamp + e.ttl) >= t
IsFreshMutNever(e, t) == FALSE
IsFreshMutAlways(e, t) == TRUE
IsFresh(e, t) == (e.timestamp + e.ttl) > t

\* has/cleanup's test `(timestamp + ttl) <= now`
IsExpiredMutLt(e, t) == (e.timestamp + e.ttl) < t
IsExpired(e, t) == (e.timestamp + e.ttl) <= t

\* `customTTL || (cacheType ? ttlStrategies[cacheType] : undefined) || defaultTTL`
ResolveTTL(customTTL, cacheType) ==
    IF customTTL # 0 THEN customTTL
    ELSE IF cacheType # "none" /\ ttlStrategies[cacheType] # 0
         THEN ttlStrategies[cacheType]
         ELSE defaultTTL

(***************************************************************************)
(* The accessOrder Map.  A JavaScript Map iterates in insertion order;     *)
(* set() on a present key keeps its position.                              *)
(***************************************************************************)
AOKeys(ao) == {ao[i].key : i \in 1..Len(ao)}

AOSet(ao, k, s) ==
    IF k \in AOKeys(ao)
    THEN [i \in 1..Len(ao) |-> IF ao[i].key = k THEN [key |-> k, stamp |-> s] ELSE ao[i]]
    ELSE Append(ao, [key |-> k, stamp |-> s])

AODelete(ao, ks) == SelectSeq(ao, LAMBDA r : r.key \notin ks)

\* the loop of evictLRU: the first key with the smallest stamp, '' if none
RECURSIVE EvictScan(_, _, _, _)
EvictScan(ao, i, oldestKey, oldestAccess) ==
    IF i > Len(ao) THEN oldestKey
    ELSE IF ao[i].stamp < oldestAccess
         THEN EvictScan(ao, i + 1, ao[i].key, ao[i].stamp)
         ELSE EvictScan(ao, i + 1, oldestKey, oldestAccess)

\* a scan that keeps the last key among equal stamps
RECURSIVE EvictScanLast(_, _, _, _)
EvictScanLast(ao, i, oldestKey, oldestAccess) ==
    IF i > Len(ao) THEN oldestKey
    ELSE IF ao[i].stamp <= oldestAccess
         THEN EvictScanLast(ao, i + 1, ao[i].key, ao[i].stamp)
         ELSE EvictScanLast(ao, i + 1, oldestKey, oldestAccess)

OldestKeyMutLast(ao) == EvictScanLast(ao, 1, NoKey, Infinity)
OldestKey(ao) == EvictScan(ao, 1, NoKey, Infinity)

\* evictLRU: removes oldestKey from both maps when it is not ''
EvictLRU(c, ao) ==
    LET oldestKey == OldestKey(ao) IN
    IF oldestKey # NoKey
    THEN [cache |-> [c EXCEPT ![oldestKey] = NoEntry],
          ao |-> AODelete(ao, {oldestKey}),
          victim |-> oldestKey]
    ELSE [cache |-> c, ao |-> ao, victim |-> NoKey]

\* set(key, data, ttl): ttl 0 stands for an omitted ttl
NeedsEvictionMutNever(c, key) == FALSE
NeedsEviction(c, key) == Size(c) >= config.maxSize /\ ~InCache(c, key)

SetEntry(c, ao, rc, t, key, data, ttl) ==
    LET ev == IF NeedsEviction(c, key) THEN EvictLRU(c, ao)
              ELSE [cache |-> c, ao |-> ao, victim |-> NoKey]
        entry == [data |-> data, timestamp |-> t,
                  ttl |-> IF ttl # 0 THEN ttl ELSE defaultTTL]
    IN [cache |-> [ev.cache EXCEPT ![key] = entry],
        ao |-> AOSet(ev.ao, key, rc),
        victim |-> ev.victim]

\* updateStats: refreshes stats.entries (hitRate, memoryUsage are derived)
UpdateStats(s, c) == [s EXCEPT !.entries = Size(c)]

SingleBag(r) == SetToBag({r})

\* lastOp after an operation other than a returning get
Other == [kind |-> "other", key |-> NoKey, val |-> "none", expired |-> FALSE]

Returned(kind, k, v, e) == [kind |-> kind, key |-> k, val |-> v, expired |-> e]

(***************************************************************************)
(* Insert-only histories: from construction on, only insertions of new     *)
(* keys, gets that do not touch the first inserted key, and clock ticks.   *)
(***************************************************************************)
RunOpen == pure /\ Len(inserted) <= config.maxSize

NoteInsert(k) ==
    /\ pure' = RunOpen
    /\ inserted' = IF RunOpen THEN Append(inserted, k) ELSE <<>>

NoteTouch(k) ==
    LET ok == RunOpen /\ (inserted = <<>> \/ inserted[1] # k) IN
    /\ pure' = ok
    /\ inserted' = IF ok THEN inserted ELSE <<>>

NoteImpure ==
    /\ pure' = FALSE
    /\ inserted' = <<>>

NoteStore(k) == IF InCache(cache, k) THEN NoteTouch(k) ELSE NoteInsert(k)

(***************************************************************************)
(* The order of last touches: the keys stored in c2, the one just touched  *)
(* (read by a hit, stored, or returned stale) moved to the end.            *)
(***************************************************************************)
Touched(r, c2, k) ==
    LET kept == SelectSeq(r, LAMBDA x : InCache(c2, x) /\ x # k) IN
    IF ~config.track THEN r
    ELSE IF k # NoKey /\ InCache(c2, k) THEN Append(kept, k)
    ELSE kept

(***************************************************************************)
(* Init: the state after `new SmartCache(config)`.                         *)
(***************************************************************************)
InitCacheWith(cap, track) ==
    /\ config = [maxSize |-> cap, track |-> track]
    /\ recency = <<>>
    /\ cache = [k \in AllKeys |-> NoEntry]
    /\ accessOrder = <<>>
    /\ stats = [totalRequests |-> 0, cacheHits |-> 0, cacheMisses |-> 0, entries |-> 0]
    /\ requestCounter = 0
    /\ now = 0
    /\ pending = EmptyBag
    /\ preload = <<>>
    /\ fetchCalls = [k \in AllKeys |-> 0]
    /\ lastOp = Other
    /\ inserted = <<>>
    /\ pure = TRUE

InitCache(cap) == InitCacheWith(cap, FALSE)

(***************************************************************************)
(* get, up to `await fetchFn()`: a hit returns, a miss suspends.           *)
(***************************************************************************)
\* `this.stats.totalRequests++` and, on a hit, `this.stats.cacheHits++`
CountHit(s) == [s EXCEPT !.totalRequests = @ + 1, !.cacheHits = @ + 1]

\* `this.stats.totalRequests++` and, on a miss, `this.stats.cacheMisses++`
CountMissMutUncounted(s) == [s EXCEPT !.totalRequests = @ + 1]
CountMiss(s) == [s EXCEPT !.totalRequests = @ + 1, !.cacheMisses = @ + 1]

GetCallStep(key, cacheType, customTTL) ==
    LET cached == cache[key]
        rc == requestCounter + 1
    IN
    /\ requestCounter < MaxRequests
    /\ requestCounter' = rc
    /\ IF InCache(cache, key) /\ IsFresh(cached, now)
       THEN /\ accessOrder' = AOSet(accessOrder, key, rc)
            /\ stats' = UpdateStats(CountHit(stats), cache)
            /\ lastOp' = Returned("hit", key, cached.data, Expired(cached, now))
            /\ UNCHANGED <<pending, fetchCalls>>
       ELSE /\ BagCardinality(pending) < MaxPending
            /\ stats' = CountMiss(stats)
            /\ pending' = pending (+) SingleBag(
                   [key |-> key, cached |-> cached,
                    cacheType |-> cacheType, customTTL |-> customTTL])
            /\ fetchCalls' = [fetchCalls EXCEPT ![key] = @ + 1]
            /\ lastOp' = Other
            /\ UNCHANGED accessOrder
    /\ NoteTouch(key)
    /\ recency' = Touched(recency, cache,
                          IF InCache(cache, key) /\ IsFresh(cache[key], now)
                          THEN key ELSE NoKey)
    /\ UNCHANGED <<config, cache, now, preload>>

GetCall(key, cacheType, customTTL) == GetCallStep(key, cacheType, customTTL) /\ UNCHANGED <<gk, fb, th, rl>>

(***************************************************************************)
(* CachedDockerHubAPI: the callers of get.  key stands for the string      *)
(* generateKey builds from the method's operation name and arguments.      *)
(***************************************************************************)
ApiGetImageDetails(key) == GetCall(key, "imageMetadata", 0)

ApiGetManifest(key) == GetCall(key, "manifest", 0)

(***************************************************************************)
(* get, after the fetch resolved with data.                                *)
(***************************************************************************)
GetFetchOkStep(p, data) ==
    LET ttl == ResolveTTL(p.customTTL, p.cacheType)
        r == SetEntry(cache, accessOrder, requestCounter, now, p.key, data, ttl)
    IN
    /\ p \in BagToSet(pending)
    /\ cache' = r.cache
    /\ accessOrder' = r.ao
    /\ stats' = UpdateStats(stats, r.cache)
    /\ pending' = pending (-) SingleBag(p)
    /\ lastOp' = Returned("store", p.key, data, Expired(r.cache[p.key], now))
    /\ NoteStore(p.key)
    /\ recency' = Touched(recency, cache', p.key)
    /\ UNCHANGED <<config, requestCounter, now, preload, fetchCalls>>

GetFetchOk(p, data) == GetFetchOkStep(p, data) /\ UNCHANGED <<gk, fb, th, rl>>

(***************************************************************************)
(* get, after the fetch rejected: stale data if `cached` was found.        *)
(***************************************************************************)
StaleAvailableMutNever(p) == FALSE
StaleAvailable(p) == p.cached # NoEntry

GetFetchFailStep(p) ==
    /\ p \in BagToSet(pending)
    /\ pending' = pending (-) SingleBag(p)
    /\ IF StaleAvailable(p)
       THEN /\ accessOrder' = AOSet(accessOrder, p.key, requestCounter)
            /\ lastOp' = Returned("stale", p.key, p.cached.data, Expired(p.cached, now))
       ELSE /\ UNCHANGED accessOrder
            /\ lastOp' = Returned("throw", p.key, "none", FALSE)
    /\ NoteTouch(p.key)
    /\ recency' = Touched(recency, cache, IF StaleAvailable(p) THEN p.key ELSE NoKey)
    /\ UNCHANGED <<config, cache, stats, requestCounter, now, preload, fetchCalls>>

GetFetchFail(p) == GetFetchFailStep(p) /\ UNCHANGED <<gk, fb, th, rl>>

(***************************************************************************)
(* The synchronous operations.                                             *)
(***************************************************************************)
Set(key, data, ttl) ==
    LET r == SetEntry(cache, accessOrder, requestCounter, now, key, data, ttl) IN
    /\ cache' = r.cache
    /\ accessOrder' = r.ao
    /\ lastOp' = Other
    /\ NoteStore(key)
    /\ recency' = Touched(recency, cache', key)
    /\ UNCHANGED <<gk, fb, th, rl, config, stats, requestCounter, now, pending, preload, fetchCalls>>

Has(key) ==
    /\ IF InCache(cache, key) /\ IsExpired(cache[key], now)
       THEN /\ cache' = [cache EXCEPT ![key] = NoEntry]
            /\ accessOrder' = AODelete(accessOrder, {key})
            /\ NoteImpure
       ELSE UNCHANGED <<cache, accessOrder, inserted, pure>>
    /\ lastOp' = Returned("has", key,
                          IF InCache(cache, key) /\ ~IsExpired(cache[key], now)
                          THEN "true" ELSE "false", FALSE)
    /\ recency' = Touched(recency, cache', NoKey)
    /\ UNCHANGED <<gk, fb, th, rl, config, stats, requestCounter, now, pending, preload, fetchCalls>>

Delete(key) ==
    /\ cache' = [cache EXCEPT ![key] = NoEntry]
    /\ accessOrder' = AODelete(accessOrder, {key})
    /\ lastOp' = Other
    /\ NoteImpure
    /\ recency' = Touched(recency, cache', NoKey)
    /\ UNCHANGED <<gk, fb, th, rl, config, stats, requestCounter, now, pending, preload, fetchCalls>>

Clear ==
    /\ cache' = [k \in AllKeys |-> NoEntry]
    /\ accessOrder' = <<>>
    /\ lastOp' = Other
    /\ NoteImpure
    /\ recency' = Touched(recency, cache', NoKey)
    /\ UNCHANGED <<gk, fb, th, rl, config, stats, requestCounter, now, pending, preload, fetchCalls>>

\* invalidatePattern: matched is the set of keys the pattern matches
InvalidatePattern(matched) ==
    LET hit == {k \in matched : InCache(cache, k)} IN
    /\ cache' = [k \in AllKeys |-> IF k \in hit THEN NoEntry ELSE cache[k]]
    /\ accessOrder' = AODelete(accessOrder, hit)
    /\ lastOp' = Other
    /\ NoteImpure
    /\ recency' = Touched(recency, cache', NoKey)
    /\ UNCHANGED <<gk, fb, th, rl, config, stats, requestCounter, now, pending, preload, fetchCalls>>

\* cleanup, run by the interval timer
Cleanup ==
    LET dead == {k \in AllKeys : InCache(cache, k) /\ IsExpired(cache[k], now)} IN
    /\ cache' = [k \in AllKeys |-> IF k \in dead THEN NoEntry ELSE cache[k]]
    /\ accessOrder' = AODelete(accessOrder, dead)
    /\ lastOp' = Returned("cleaned", NoKey, IF dead = {} THEN "none" ELSE "some", FALSE)
    /\ IF dead = {} THEN UNCHANGED <<inserted, pure>> ELSE NoteImpure
    /\ recency' = Touched(recency, cache', NoKey)
    /\ UNCHANGED <<gk, fb, th, rl, config, stats, requestCounter, now, pending, preload, fetchCalls>>

(***************************************************************************)
(* preload: every fn() is started at once and each item settles on its     *)
(* own; when the last item has settled Promise.allSettled resolves and     *)
(* preload returns (the code after it only logs).                          *)
(***************************************************************************)
Settled(pl) == \A i \in 1..Len(pl) : pl[i].st # "pending"

SettleMutAbort(pl) ==
    IF \E i \in 1..Len(pl) : pl[i].st = "failed" THEN <<>>
    ELSE IF Settled(pl) THEN <<>> ELSE pl
Settle(pl) ==
    IF Settled(pl) THEN <<>> ELSE pl

\* what the caller of preload sees once every item has settled: preload
\* returns, whatever the items did
PreloadReturn(pl) ==
    IF Settle(pl) # <<>> THEN Other
    ELSE Returned("preloaded", NoKey,
                  IF \A i \in 1..Len(pl) : pl[i].st = "ok" THEN "all"
                  ELSE IF \E i \in 1..Len(pl) : pl[i].st = "ok" THEN "some"
                  ELSE "nothing",
                  FALSE)

PreloadStart(items) ==
    /\ preload = <<>>
    /\ preload' = [i \in 1..Len(items) |->
                      [key |-> items[i].key, type |-> items[i].type, st |-> "pending"]]
    /\ lastOp' = Other
    /\ UNCHANGED recency
    /\ UNCHANGED <<gk, fb, th, rl, config, cache, accessOrder, stats, requestCounter, now, pending,
                   fetchCalls, inserted, pure>>

PreloadItemOk(i, data) ==
    /\ i \in 1..Len(preload)
    /\ preload[i].st = "pending"
    /\ LET it == preload[i]
           r == SetEntry(cache, accessOrder, requestCounter, now, it.key, data,
                         ttlStrategies[it.type])
       IN /\ cache' = r.cache
          /\ accessOrder' = r.ao
          /\ NoteStore(it.key)
    /\ preload' = Settle([preload EXCEPT ![i].st = "ok"])
    /\ lastOp' = PreloadReturn([preload EXCEPT ![i].st = "ok"])
    /\ recency' = Touched(recency, cache', preload[i].key)
    /\ UNCHANGED <<gk, fb, th, rl, config, stats, requestCounter, now, pending, fetchCalls>>

PreloadItemFail(i) ==
    /\ i \in 1..Len(preload)
    /\ preload[i].st = "pending"
    /\ preload' = Settle([preload EXCEPT ![i].st = "failed"])
    /\ lastOp' = PreloadReturn([preload EXCEPT ![i].st = "failed"])
    /\ UNCHANGED recency
    /\ UNCHANGED <<gk, fb, th, rl, config, cache, accessOrder, stats, requestCounter, now, pending,
                   fetchCalls, inserted, pure>>

(***************************************************************************)
(* The clock.                                                              *)
(***************************************************************************)
Tick ==
    /\ now < MaxTicks * ClockStep
    /\ now' = now + ClockStep
    /\ UNCHANGED recency
    /\ UNCHANGED <<gk, fb, th, rl, config, cache, accessOrder, stats, requestCounter, pending,
                   preload, fetchCalls, lastOp, inserted, pure>>

PreloadLists ==
    UNION {[1..n -> [key : Keys, type : PreloadTypes]] : n \in 1..MaxPreload}

(***************************************************************************)
(* Spec: one cache instance under every interleaving of its operations.    *)
(***************************************************************************)
Init ==
    /\ InitCache(Capacity)
    /\ gk = NoExperiment
    /\ fb = NoCall
    /\ th = NoToolCall
    /\ rl = NoLimiter

Next ==
    \/ \E k \in Keys : ApiGetImageDetails(k)
    \/ \E k \in Keys : ApiGetManifest(k)
    \/ \E p \in BagToSet(pending), v \in Vals : GetFetchOk(p, v)
    \/ \E p \in BagToSet(pending) : GetFetchFail(p)
    \/ \E k \in Keys, v \in Vals, ttl \in SetTTLs : Set(k, v, ttl)
    \/ \E k \in Keys : Has(k)
    \/ \E k \in Keys : Delete(k)
    \/ Clear
    \/ \E m \in SUBSET Keys : InvalidatePattern(m)
    \/ Cleanup
    \/ \E items \in PreloadLists : PreloadStart(items)
    \/ \E i \in 1..MaxPreload, v \in Vals : PreloadItemOk(i, v)
    \/ \E i \in 1..MaxPreload : PreloadItemFail(i)
    \/ Tick

Spec == Init /\ [][Next]_vars

(***************************************************************************)
(* SpecLRU: the eviction scenarios, a cache of capacity LruCapacity filled *)
(* by get and set.                                                         *)
(***************************************************************************)
InitLRU ==
    /\ InitCache(LruCapacity)
    /\ gk = NoExperiment
    /\ fb = NoCall
    /\ th = NoToolCall
    /\ rl = NoLimiter

NextLRU ==
    \/ \E k \in LruKeys : ApiGetManifest(k)
    \/ \E p \in BagToSet(pending) : GetFetchOk(p, "v1")
    \/ \E p \in BagToSet(pending) : GetFetchFail(p)
    \/ \E k \in LruKeys : Set(k, "v1", 0)
    \/ Tick

SpecLRU == InitLRU /\ [][NextLRU]_vars

(***************************************************************************)
(* The same cache and callers, with the order of last touches recorded.    *)
(***************************************************************************)
InitHist ==
    /\ InitCacheWith(LruCapacity, TRUE)
    /\ gk = NoExperiment
    /\ fb = NoCall
    /\ th = NoToolCall
    /\ rl = NoLimiter

NextHist ==
    \/ \E k \in LruKeys : ApiGetManifest(k)
    \/ \E p \in BagToSet(pending) : GetFetchOk(p, "v1")
    \/ \E p \in BagToSet(pending) : GetFetchFail(p)
    \/ \E k \in LruKeys : Set(k, "v1", 0)
    \/ Tick

SpecHist == InitHist /\ [][NextHist]_vars

(***************************************************************************)
(* A cache that holds entries of different TTLs side by side, with has and *)
(* the cleanup sweep.                                                      *)
(***************************************************************************)
InitSweep ==
    /\ InitCache(LruCapacity)
    /\ gk = NoExperiment
    /\ fb = NoCall
    /\ th = NoToolCall
    /\ rl = NoLimiter

NextSweep ==
    \/ \E k \in Keys : ApiGetManifest(k)
    \/ \E p \in BagToSet(pending) : GetFetchOk(p, "v1")
    \/ \E p \in BagToSet(pending) : GetFetchFail(p)
    \/ \E k \in Keys : Set(k, "v1", 0)
    \/ \E k \in Keys : Has(k)
    \/ Cleanup
    \/ Tick

SpecSweep == InitSweep /\ [][NextSweep]_vars

(***************************************************************************)
(* SmartCache.generateKey.  A params object is the sequence of its         *)
(* properties in insertion order, each a name and a value; a string is     *)
(* the sequence of its pieces.                                             *)
(***************************************************************************)
Operations == {"image_details", "list_tags"}

ParamNames == {"namespace", "repository", "page", "pageSize"}

\* the UTF-16 code units of the property names, which sort() compares
CodeUnits ==
    [namespace  |-> <<110, 97, 109, 101, 115, 112, 97, 99, 101>>,
     repository |-> <<114, 101, 112, 111, 115, 105, 116, 111, 114, 121>>,
     page       |-> <<112, 97, 103, 101>>,
     pageSize   |-> <<112, 97, 103, 101, 83, 105, 122, 101>>]

Undefined == [type |-> "undefined", text |-> ""]

ParamValues ==
    {[type |-> "string", text |-> "1"], [type |-> "number", text |-> "1"], Undefined}

\* the object literals a caller can write: property names are distinct
ParamObjects ==
    UNION {{s \in [1..n -> [name : ParamNames, value : ParamValues]] :
               \A i, j \in 1..n : s[i].name = s[j].name => i = j} : n \in 0..MaxParams}

Reorderings(n) == {f \in [1..n -> 1..n] : \A i, j \in 1..n : f[i] = f[j] => i = j}

Permuted(params, f) == [i \in 1..Len(params) |-> params[f[i]]]

RECURSIVE CodeUnitLess(_, _)
CodeUnitLess(a, b) ==
    IF b = <<>> THEN FALSE
    ELSE IF a = <<>> THEN TRUE
    ELSE IF Head(a) # Head(b) THEN Head(a) < Head(b)
    ELSE CodeUnitLess(Tail(a), Tail(b))

NameLess(x, y) == CodeUnitLess(CodeUnits[x], CodeUnits[y])

InsertKey(sorted, k) ==
    SelectSeq(sorted, LAMBDA x : ~NameLess(k, x)) \o <<k>>
        \o SelectSeq(sorted, LAMBDA x : NameLess(k, x))

RECURSIVE SortFrom(_, _, _)
SortFrom(keys, i, acc) ==
    IF i > Len(keys) THEN acc ELSE SortFrom(keys, i + 1, InsertKey(acc, keys[i]))

\* Array.prototype.sort with the default comparison
SortKeysMutNone(keys) == keys
SortKeys(keys) == SortFrom(keys, 1, <<>>)

ObjectKeys(params) == [i \in 1..Len(params) |-> params[i].name]

ValueOf(params, name) ==
    params[CHOOSE i \in 1..Len(params) : params[i].name = name].value

\* the reduce: a new object that receives the properties in sorted order
SortedParams(params) ==
    LET ks == SortKeys(ObjectKeys(params)) IN
    [i \in 1..Len(ks) |-> [name |-> ks[i], value |-> ValueOf(params, ks[i])]]

JSONValue(v) == IF v.type = "string" THEN <<"\"", v.text, "\"">> ELSE <<v.text>>

\* the members of an object; a property whose value is undefined is skipped
RECURSIVE JSONMembers(_, _, _)
JSONMembers(obj, i, first) ==
    IF i > Len(obj) THEN <<>>
    ELSE IF obj[i].value.type = "undefined" THEN JSONMembers(obj, i + 1, first)
    ELSE (IF first THEN <<>> ELSE <<",">>)
             \o <<"\"", obj[i].name, "\"", ":">> \o JSONValue(obj[i].value)
             \o JSONMembers(obj, i + 1, FALSE)

JSONStringify(obj) == <<"{">> \o JSONMembers(obj, 1, TRUE) \o <<"}">>

generateKey(operation, params) ==
    <<operation, ":">> \o JSONStringify(SortedParams(params))

(***************************************************************************)
(* SpecKey: generateKey applied to a params object and to a reordering of  *)
(* the same properties.                                                    *)
(***************************************************************************)
KeyOfFirst ==
    /\ gk.op # "none"
    /\ gk.key1 = <<>>
    /\ gk' = [gk EXCEPT !.key1 = generateKey(gk.op, gk.p1)]
    /\ UNCHANGED <<cacheVars, fb, th, rl>>

KeyOfSecond ==
    /\ gk.op # "none"
    /\ gk.key2 = <<>>
    /\ gk' = [gk EXCEPT !.key2 = generateKey(gk.op, gk.p2)]
    /\ UNCHANGED <<cacheVars, fb, th, rl>>

(***************************************************************************)
(* dockerhubFunctions: the operations that try a request without           *)
(* credentials and fall back to an authenticated one.  fb follows one      *)
(* call: pc is where it is suspended, requests the Authorization header    *)
(* of every request made for the operation's own URL, exchanges the calls  *)
(* of getDockerHubAPIToken / getDockerHubBearerToken, authRequests the     *)
(* requests those made.                                                    *)
(***************************************************************************)
FallbackOps ==
    {"getImageDetails", "getImageStats", "getDockerHubTagDetails",
     "getManifestDetails", "listRepositoryTags", "getImageVulnerabilities",
     "getDockerfile"}

\* the operations that first ask the registry's token service for an
\* anonymous pull token and then read the manifest with it
LayerOps == {"getImageLayers", "estimatePullSize"}

Tokens == {"undefined", "", "pat"}              \* token?: string

IssuedJwts == {"jwt", "undefined"}              \* response.data.token

IssuedBearers == {"bearer", "null"}             \* data.token || data.access_token || null

\* response.data of the token service: with a token, without one, null
TokenResponses == {"token", "notoken", "nodata"}

Truthy(t) == t \notin {"undefined", "", "null"}

FailStatuses == {401, 403, 404, 500, 0}         \* 0: an error without a response

\* the data of a 200 response: null, {count: 0}, one naming a github
\* source_url, anything else
Bodies == {"null", "count0", "github", "plain"}

possibleUrls == 5

NoHeader == [scheme |-> "none", token |-> ""]

Authorization(scheme, token) == [scheme |-> scheme, token |-> token]

Data == [kind |-> "data", msg |-> "", status |-> 200]

Thrown(msg, status) == [kind |-> "error", msg |-> msg, status |-> status]

Done(f, result) == [f EXCEPT !.pc = "done", !.result = result]

\* the catch condition of every fallback operation
ShouldFallbackMutNoToken(status, token) == status \in {401, 404}
ShouldFallbackMut404(status, token) == status = 404 /\ Truthy(token)
ShouldFallback(status, token) == status \in {401, 404} /\ Truthy(token)

\* the call of the exchange function, up to its first request
StartExchange(f, path) ==
    [f EXCEPT !.pc = IF f.op \in {"getManifestDetails"} \cup LayerOps
                     THEN "bearerBasic" ELSE "login",
              !.path = path,
              !.exchanges = @ + 1,
              !.authRequests = @ + 1]

\* the authenticated request for the operation's URL
SendAuthenticated(f, header) ==
    [f EXCEPT !.pc = "retry", !.requests = Append(@, header)]

\* what the code between a 200 response and the return does with the data
Outcome(op, body) ==
    IF op = "getDockerfile" /\ body = "github" THEN "probe"
    ELSE IF op \in {"getImageStats", "getImageVulnerabilities"} /\ body = "null"
    THEN "TypeError"
    ELSE "data"

FbCall(op, token) ==
    /\ fb.pc = "idle"
    /\ fb' = [fb EXCEPT !.pc = "anon", !.op = op, !.token = token,
                        !.requests = <<NoHeader>>]
    /\ UNCHANGED <<cacheVars, gk, th, rl>>

\* the unauthenticated request resolved
FbAnonOk(body) ==
    /\ fb.pc = "anon"
    /\ LET f == [fb EXCEPT !.first = 200, !.firstBody = body]
           out == Outcome(fb.op, body)
       IN fb' = IF fb.op = "listRepositoryTags" /\ body = "count0" /\ Truthy(fb.token)
                THEN StartExchange(f, "anyway")
                ELSE IF out = "probe" THEN [f EXCEPT !.pc = "probe"]
                ELSE IF out = "TypeError" THEN Done(f, Thrown("TypeError", -1))
                ELSE Done(f, Data)
    /\ UNCHANGED <<cacheVars, gk, th, rl>>

\* the unauthenticated request rejected
FbAnonFail(status) ==
    /\ fb.pc = "anon"
    /\ LET f == [fb EXCEPT !.first = status, !.atFail = Len(fb.requests)] IN
       fb' = IF ShouldFallback(status, fb.token)
             THEN StartExchange(f, "fallback")
             ELSE Done(f, Thrown("AxiosError", status))
    /\ UNCHANGED <<cacheVars, gk, th, rl>>

\* getDockerHubAPIToken: the login request resolved
FbLoginOk(jwt) ==
    /\ fb.pc = "login"
    /\ LET f == [fb EXCEPT !.issued = jwt] IN
       fb' = IF Truthy(jwt) THEN SendAuthenticated(f, Authorization("JWT", jwt))
             ELSE IF fb.path = "fallback"
             THEN Done(f, Thrown("Authentication failed: Error: Failed to get JWT token", -1))
             ELSE Done(f, Data)
    /\ UNCHANGED <<cacheVars, gk, th, rl>>

\* getDockerHubAPIToken: the login request rejected, and it throws
FbLoginFail ==
    /\ fb.pc = "login"
    /\ fb' = IF fb.path = "fallback"
             THEN Done([fb EXCEPT !.exchangeThrew = TRUE], Thrown("Authentication failed: Error: Authentication failed: status - detail", -1))
             ELSE Done([fb EXCEPT !.exchangeThrew = TRUE],
                       Thrown("Authentication failed: status - detail", -1))
    /\ UNCHANGED <<cacheVars, gk, th, rl>>

\* getDockerHubBearerToken returns: getManifestDetails goes on with the
\* token or throws for the lack of one
ReturnBearer(f, bearer) ==
    LET g == [f EXCEPT !.issued = bearer] IN
    IF ~Truthy(bearer)
    THEN Done(g, Thrown(IF f.op = "getImageLayers"
                        THEN "Authentication failed: Failed to get registry bearer token"
                        ELSE "Authentication failed: Error: Failed to get registry bearer token",
                        -1))
    ELSE IF f.op \in LayerOps
    THEN [g EXCEPT !.pc = "lyAuthToken",
                   !.requests = Append(@, Authorization("Bearer", bearer))]
    ELSE SendAuthenticated(g, Authorization("Bearer", bearer))

\* data.token || data.access_token || null
BearerOf(resp) == IF resp = "token" THEN "bearer" ELSE "null"

\* getDockerHubBearerToken: either of its two requests resolved; reading a
\* token out of null data throws inside the try, as a rejection would
FbBearerOk(resp) ==
    /\ fb.pc \in {"bearerBasic", "bearerAlt"}
    /\ LET f == IF fb.pc = "bearerBasic" THEN [fb EXCEPT !.basic = resp] ELSE fb IN
       fb' = IF resp # "nodata" THEN ReturnBearer(f, BearerOf(resp))
             ELSE IF fb.pc = "bearerBasic"
             THEN [f EXCEPT !.pc = "bearerAlt", !.authRequests = @ + 1]
             ELSE ReturnBearer(f, "null")
    /\ UNCHANGED <<cacheVars, gk, th, rl>>

\* getDockerHubBearerToken: a request rejected; the first is followed by
\* the alternative method, the second makes it return null
FbBearerFail ==
    /\ fb.pc \in {"bearerBasic", "bearerAlt"}
    /\ fb' = IF fb.pc = "bearerBasic"
             THEN [fb EXCEPT !.pc = "bearerAlt", !.basic = "rejected",
                             !.authRequests = @ + 1]
             ELSE ReturnBearer(fb, "null")
    /\ UNCHANGED <<cacheVars, gk, th, rl>>

\* the authenticated request resolved
FbRetryOk(body) ==
    /\ fb.pc = "retry"
    /\ LET out == Outcome(fb.op, body) IN
       fb' = IF fb.path = "anyway" THEN Done(fb, Data)
             ELSE IF out = "probe" THEN [fb EXCEPT !.pc = "probe"]
             ELSE IF out = "TypeError"
             THEN Done(fb, Thrown("Authentication failed: TypeError", -1))
             ELSE Done(fb, Data)
    /\ UNCHANGED <<cacheVars, gk, th, rl>>

\* the authenticated request rejected: inside the fallback it is wrapped;
\* after a 200 it reaches the catch clause as the first request's would
FbRetryFail(status) ==
    /\ fb.pc = "retry"
    /\ LET f == [fb EXCEPT !.retryFails = @ + 1] IN
       fb' = IF fb.path = "fallback"
             THEN Done(f, Thrown("Authentication failed: AxiosError", -1))
             ELSE IF ShouldFallback(status, fb.token)
             THEN StartExchange(f, "fallback")
             ELSE Done(f, Thrown("AxiosError", status))
    /\ UNCHANGED <<cacheVars, gk, th, rl>>

\* fetchDockerfileFromDetails: one of the guessed URLs answered with text
FbProbeFound ==
    /\ fb.pc = "probe"
    /\ fb' = Done([fb EXCEPT !.probes = @ + 1], Data)
    /\ UNCHANGED <<cacheVars, gk, th, rl>>

\* fetchDockerfileFromDetails: a guessed URL failed; after the last one the
\* result is {dockerfile: null}
FbProbeMiss ==
    /\ fb.pc = "probe"
    /\ LET f == [fb EXCEPT !.probes = @ + 1] IN
       fb' = IF f.probes = possibleUrls THEN Done(f, Data) ELSE f
    /\ UNCHANGED <<cacheVars, gk, th, rl>>

\* the handler's body is inside a try whose catch returns an envelope
CatchesMutAll(tool) == TRUE
Catches(tool) ==
    tool \notin {"docker_get_image_details", "docker_get_tag_details",
                 "docker_list_repositories"}

(***************************************************************************)
(* The text a handler returns for the outcome of its operation, as the set *)
(* of the sources its template strings are filled from: "literal" text of  *)
(* the program, the tool's "input", the "status", "detail" and "data" of   *)
(* an upstream response, the "message" of an axios or runtime error, the   *)
(* "credential" and a "token" exchanged for it.                            *)
(***************************************************************************)
\* getDockerHubAPIToken: `Authentication failed: ${status} - ${detail || message}`
LoginErrorPartsMutConfig == {"literal", "status", "detail", "message", "credential"}
LoginErrorParts == {"literal", "status", "detail", "message"}

\* the message of an error an operation throws
MessageParts(msg) ==
    CASE msg = "AxiosError" -> {"message"}
      [] msg = "TypeError" -> {"message"}
      [] msg = "Authentication failed: Error: Failed to get JWT token" -> {"literal"}
      [] msg = "Authentication failed: Error: Failed to get registry bearer token" -> {"literal"}
      [] msg = "Authentication failed: Failed to get registry bearer token" -> {"literal"}
      [] msg = "Failed to get layer information: AxiosError" -> {"literal", "message"}
      [] msg = "Failed to get layer information: TypeError" -> {"literal", "message"}
      [] msg = "User not found or has no accessible repositories" -> {"literal", "input"}
      [] msg = "Access denied" -> {"literal", "input"}
      [] msg = "Failed to list repositories: AxiosError" -> {"literal", "input", "message"}
      [] msg = "Failed to list repositories: TypeError" -> {"literal", "input", "message"}
      [] msg = "Authentication failed: Error: Authentication failed: status - detail"
             -> {"literal"} \cup LoginErrorParts
      [] msg = "Authentication failed: status - detail" -> LoginErrorParts
      [] msg = "Authentication failed: AxiosError" -> {"literal", "message"}
      [] msg = "Authentication failed: TypeError" -> {"literal", "message"}
      [] OTHER -> {}

HandlerOf(op) ==
    CASE op = "getImageDetails"         -> "docker_get_image_details"
      [] op = "getImageStats"           -> "docker_get_stats"
      [] op = "getDockerHubTagDetails"  -> "docker_get_tag_details"
      [] op = "getManifestDetails"      -> "docker_get_manifest"
      [] op = "listRepositoryTags"      -> "docker_list_tags"
      [] op = "getImageVulnerabilities" -> "docker_get_vulnerabilities"
      [] op = "getDockerfile"           -> "docker_get_dockerfile"
      [] op = "getImageLayers"          -> "docker_analyze_layers"
      [] op = "estimatePullSize"        -> "docker_estimate_pull_size"
      [] op = "listDockerHubRepositories" -> "docker_list_repositories"

\* the text of the envelope, or of the error a handler without a catch
\* lets through
TextParts(tool, result) ==
    IF result.kind = "data"
    THEN IF tool \in {"docker_get_image_details", "docker_get_stats",
                      "docker_analyze_layers", "docker_estimate_pull_size",
                      "docker_list_repositories"}
         THEN {"literal", "input", "data"}
         ELSE {"literal", "input"}
    ELSE IF tool = "docker_list_tags" THEN {"literal", "input"}
    ELSE IF ~Catches(tool) THEN MessageParts(result.msg)
    ELSE IF tool = "docker_get_stats" /\ result.msg = "AxiosError"
    THEN {"literal", "input", "detail", "message"}
    ELSE {"literal", "input"} \cup MessageParts(result.msg)

\* the handler of the operation answers its caller
FbAnswer ==
    /\ fb.pc = "done"
    /\ fb.text = {}
    /\ fb' = [fb EXCEPT !.text = TextParts(HandlerOf(fb.op), fb.result)]
    /\ UNCHANGED <<cacheVars, gk, th, rl>>

(***************************************************************************)
(* SpecAuth: one call of a fallback operation against every answer of the  *)
(* servers.                                                                *)
(***************************************************************************)
InitAuth ==
    /\ InitCache(Capacity)
    /\ gk = NoExperiment
    /\ fb = NoCall
    /\ th = NoToolCall
    /\ rl = NoLimiter

NextAuth ==
    \/ \E op \in FallbackOps, token \in Tokens : FbCall(op, token)
    \/ \E body \in Bodies : FbAnonOk(body)
    \/ \E status \in FailStatuses : FbAnonFail(status)
    \/ \E jwt \in IssuedJwts : FbLoginOk(jwt)
    \/ FbLoginFail
    \/ \E resp \in TokenResponses : FbBearerOk(resp)
    \/ FbBearerFail
    \/ \E body \in Bodies : FbRetryOk(body)
    \/ \E status \in FailStatuses : FbRetryFail(status)
    \/ FbProbeFound
    \/ FbProbeMiss
    \/ FbAnswer

SpecAuth == InitAuth /\ [][NextAuth]_vars

(***************************************************************************)
(* getImageLayers and estimatePullSize.  The unauthenticated attempt is a  *)
(* request for an anonymous pull token followed by the manifest requests   *)
(* of calculateLayersWithToken / calculatePullSizeWithToken; the fallback  *)
(* asks getDockerHubBearerToken, repeats the attempt with the bearer token *)
(* and, if that fails, reads the manifest with the bearer token itself.    *)
(***************************************************************************)
\* response.data of a manifest request: an image manifest, a manifest list
\* or index naming an amd64/linux image, null
ManifestBodies == {"image", "index", "null"}

LyTokenPcs == {"lyAnonToken", "lyAuthToken"}

LyManifestPcs == {"lyAnonManifest", "lyAuthManifest", "lyDirectManifest"}

LyImagePcs == {"lyAnonImage", "lyAuthImage", "lyDirectImage"}

LyPhase(pc) ==
    CASE pc \in {"lyAnonToken", "lyAnonManifest", "lyAnonImage"} -> "Anon"
      [] pc \in {"lyAuthToken", "lyAuthManifest", "lyAuthImage"} -> "Auth"
      [] pc \in {"lyDirectManifest", "lyDirectImage"} -> "Direct"

LyManifestPcOf(phase) ==
    CASE phase = "Anon" -> "lyAnonManifest"
      [] phase = "Auth" -> "lyAuthManifest"
      [] phase = "Direct" -> "lyDirectManifest"

LyImagePcOf(phase) ==
    CASE phase = "Anon" -> "lyAnonImage"
      [] phase = "Auth" -> "lyAuthImage"
      [] phase = "Direct" -> "lyDirectImage"

\* the last throw of the outer catch: getImageLayers throws a new Error
\* around the message, estimatePullSize rethrows the error it caught
Propagate(op, msg, status) ==
    IF op = "getImageLayers"
    THEN Thrown(IF msg = "AxiosError"
                THEN "Failed to get layer information: AxiosError"
                ELSE "Failed to get layer information: TypeError", -1)
    ELSE Thrown(msg, status)

\* an await of the operation threw: the catch clause of the try it is in
LyFailed(f, msg, status) ==
    LET phase == LyPhase(f.pc)
        g == [f EXCEPT !.first = status, !.atFail = Len(f.requests)]
    IN CASE phase = "Anon" ->
                IF msg = "AxiosError" /\ ShouldFallback(status, f.token)
                THEN StartExchange(g, "fallback")
                ELSE Done(g, Propagate(f.op, msg, status))
         [] phase = "Auth" ->
                [f EXCEPT !.pc = "lyDirectManifest",
                          !.requests = Append(@, Authorization("Bearer", f.issued))]
         [] phase = "Direct" ->
                Done(f, Thrown(IF msg = "AxiosError"
                               THEN "Authentication failed: AxiosError"
                               ELSE "Authentication failed: TypeError", -1))

LyCall(op, token) ==
    /\ fb.pc = "idle"
    /\ fb' = [fb EXCEPT !.pc = "lyAnonToken", !.op = op, !.token = token,
                        !.requests = <<NoHeader>>]
    /\ UNCHANGED <<cacheVars, gk, th, rl>>

\* the token service answered: authResp.data.token is read and the
\* manifest is requested with it
LyTokenOk(resp) ==
    /\ fb.pc \in LyTokenPcs
    /\ fb' = IF resp = "nodata" THEN LyFailed(fb, "TypeError", 200)
             ELSE [fb EXCEPT !.pc = LyManifestPcOf(LyPhase(fb.pc)),
                             !.requests = Append(@,
                                 Authorization("Bearer",
                                     IF resp = "token" THEN "registry" ELSE "undefined"))]
    /\ UNCHANGED <<cacheVars, gk, th, rl>>

LyTokenFail(status) ==
    /\ fb.pc \in LyTokenPcs
    /\ fb' = LyFailed(fb, "AxiosError", status)
    /\ UNCHANGED <<cacheVars, gk, th, rl>>

\* a manifest request resolved: a list or index is followed by the request
\* for the image manifest it names
LyManifestOk(body) ==
    /\ fb.pc \in LyManifestPcs \cup LyImagePcs
    /\ fb' = IF body = "null" THEN LyFailed(fb, "TypeError", 200)
             ELSE IF body = "index" /\ fb.pc \in LyManifestPcs
             THEN [fb EXCEPT !.pc = LyImagePcOf(LyPhase(fb.pc)),
                             !.requests = Append(@, fb.requests[Len(fb.requests)])]
             ELSE Done(fb, Data)
    /\ UNCHANGED <<cacheVars, gk, th, rl>>

LyManifestFail(status) ==
    /\ fb.pc \in LyManifestPcs \cup LyImagePcs
    /\ fb' = LyFailed(fb, "AxiosError", status)
    /\ UNCHANGED <<cacheVars, gk, th, rl>>

(***************************************************************************)
(* listDockerHubRepositories.  Each listing is a loop of page requests.    *)
(***************************************************************************)
\* response.data of a page: with results, without, null
PageResults == {"some", "none", "nodata"}

LrListingPcs == {"lrCurrent", "lrUser", "lrAnon"}

\* the first page request of a listing
LrStartListing(f, pc, header) ==
    [f EXCEPT !.pc = pc, !.page = 1, !.repos = FALSE,
              !.requests = Append(@, header)]

\* listRepositoriesUnauthenticated is called
LrStartAnon(f) == LrStartListing(f, "lrAnon", NoHeader)

\* the error thrown for a failed unauthenticated listing
LrError(msg, status) ==
    IF msg = "AxiosError" /\ status = 404
    THEN Thrown("User not found or has no accessible repositories", -1)
    ELSE IF msg = "AxiosError" /\ status = 403
    THEN Thrown("Access denied", -1)
    ELSE IF msg = "AxiosError"
    THEN Thrown("Failed to list repositories: AxiosError", -1)
    ELSE Thrown("Failed to list repositories: TypeError", -1)

\* a listing threw: the authenticated ones are followed by the next
\* strategy, the unauthenticated one throws
LrFailed(f, msg, status) ==
    CASE f.pc = "lrCurrent" ->
             LrStartListing(f, "lrUser", Authorization("JWT", f.issued))
      [] f.pc = "lrUser" -> LrStartAnon(f)
      [] f.pc = "lrAnon" ->
             Done([f EXCEPT !.first = status, !.atFail = Len(f.requests)],
                  LrError(msg, status))

\* a listing returned its repositories
LrListed(f) ==
    CASE f.pc = "lrCurrent" ->
             IF f.repos THEN Done(f, Data)
             ELSE LrStartListing(f, "lrUser", Authorization("JWT", f.issued))
      [] f.pc = "lrUser" -> IF f.repos THEN Done(f, Data) ELSE LrStartAnon(f)
      [] f.pc = "lrAnon" -> Done(f, Data)

\* with a token the exchange comes first, without one the public listing
LrCall(token) ==
    /\ fb.pc = "idle"
    /\ LET f == [fb EXCEPT !.op = "listDockerHubRepositories", !.token = token] IN
       fb' = IF Truthy(token)
             THEN [f EXCEPT !.pc = "lrLogin", !.exchanges = @ + 1,
                            !.authRequests = @ + 1]
             ELSE LrStartAnon(f)
    /\ UNCHANGED <<cacheVars, gk, th, rl>>

\* getDockerHubAPIToken returned
LrLoginOk(jwt) ==
    /\ fb.pc = "lrLogin"
    /\ LET f == [fb EXCEPT !.issued = jwt] IN
       fb' = IF Truthy(jwt)
             THEN LrStartListing(f, "lrCurrent", Authorization("JWT", jwt))
             ELSE LrStartAnon(f)
    /\ UNCHANGED <<cacheVars, gk, th, rl>>

\* getDockerHubAPIToken threw
LrLoginFail ==
    /\ fb.pc = "lrLogin"
    /\ fb' = LrStartAnon([fb EXCEPT !.exchangeThrew = TRUE])
    /\ UNCHANGED <<cacheVars, gk, th, rl>>

\* a page request resolved
LrPageOk(results, hasNext) ==
    /\ fb.pc \in LrListingPcs
    /\ hasNext => fb.page < MaxPages
    /\ LET f == [fb EXCEPT !.repos = @ \/ results = "some"] IN
       fb' = IF results = "nodata" THEN LrFailed(fb, "TypeError", 200)
             ELSE IF hasNext
             THEN [f EXCEPT !.page = @ + 1,
                            !.requests = Append(@, fb.requests[Len(fb.requests)])]
             ELSE LrListed(f)
    /\ UNCHANGED <<cacheVars, gk, th, rl>>

\* a page request rejected
LrPageFail(status) ==
    /\ fb.pc \in LrListingPcs
    /\ fb' = LrFailed(fb, "AxiosError", status)
    /\ UNCHANGED <<cacheVars, gk, th, rl>>

NextFallback ==
    \/ NextAuth
    \/ \E token \in Tokens : LrCall(token)
    \/ \E jwt \in IssuedJwts : LrLoginOk(jwt)
    \/ LrLoginFail
    \/ \E results \in PageResults, hasNext \in BOOLEAN : LrPageOk(results, hasNext)
    \/ \E status \in FailStatuses : LrPageFail(status)
    \/ \E op \in LayerOps, token \in Tokens : LyCall(op, token)
    \/ \E resp \in TokenResponses : LyTokenOk(resp)
    \/ \E status \in FailStatuses : LyTokenFail(status)
    \/ \E body \in ManifestBodies : LyManifestOk(body)
    \/ \E status \in FailStatuses : LyManifestFail(status)

SpecFallback == InitAuth /\ [][NextFallback]_vars

(***************************************************************************)
(* SpecKey                                                                 *)
(***************************************************************************)
InitKey ==
    /\ InitCache(Capacity)
    /\ fb = NoCall
    /\ th = NoToolCall
    /\ rl = NoLimiter
    /\ \E o \in Operations, a \in ParamObjects :
           \E f \in Reorderings(Len(a)) :
               gk = [op |-> o, p1 |-> a, p2 |-> Permuted(a, f),
                     key1 |-> <<>>, key2 |-> <<>>]

NextKey == KeyOfFirst \/ KeyOfSecond

SpecKey == InitKey /\ [][NextKey]_vars

(***************************************************************************)
(* The tool handlers registered by index.ts.  th follows the calls of one  *)
(* handler with one input: upstream counts the calls it made of the        *)
(* dockerhubFunctions operation (through the cache: the fetches), atCall   *)
(* is that count when the current call began.                              *)
(***************************************************************************)
Tools ==
    {"docker_get_image_details", "docker_get_tag_details",
     "docker_list_repositories", "docker_get_manifest", "docker_get_stats",
     "docker_get_vulnerabilities", "docker_get_dockerfile",
     "docker_compare_images", "docker_list_tags", "docker_search_images"}

\* the cachedDockerHubAPI method a handler calls, by its cache type; "none"
\* for a handler that calls the operation itself
CachedAs(tool) ==
    CASE tool = "docker_get_image_details"   -> "imageMetadata"
      [] tool = "docker_get_manifest"        -> "manifest"
      [] tool = "docker_get_vulnerabilities" -> "vulnerabilities"
      [] tool = "docker_search_images"       -> "searchResults"
      [] OTHER                               -> "none"

\* the cache type CachedDockerHubAPI gives the data of a tool
WrapperType(tool) ==
    CASE tool = "docker_list_tags"      -> "tags"
      [] tool = "docker_get_dockerfile" -> "dockerfile"
      [] OTHER                          -> CachedAs(tool)

\* the time the wrapper keeps the data of a tool; none without a wrapper
WrapperTTL(tool) ==
    IF WrapperType(tool) = "none" THEN 0 ELSE ttlStrategies[WrapperType(tool)]

\* the handler's catch leaves the ordinary summary text in place
Swallows(tool) == tool \in {"docker_list_tags", "docker_search_images"}

ToolKey == 1

NoEnvelope == [text |-> "none", payload |-> "none"]

\* the call returns the data the operation gave
Succeed(t) ==
    IF t.tool = "docker_search_images" /\ t.env
    THEN [t EXCEPT !.pc = "private", !.upstream = @ + 1]
    ELSE [t EXCEPT !.pc = "returned",
                   !.envelope = [text |-> "summary", payload |-> "data"],
                   !.firstOk = IF t.calls = 1 THEN TRUE ELSE @]

\* the operation threw
Fail(t) ==
    LET f == [t EXCEPT !.failed = TRUE] IN
    IF f.tool = "docker_search_images" /\ f.env
    THEN [f EXCEPT !.pc = "private", !.upstream = @ + 1]
    ELSE IF Swallows(f.tool)
    THEN [f EXCEPT !.pc = "returned",
                   !.envelope = [text |-> "summary",
                                 payload |-> IF f.tags THEN "collected" ELSE "sentinel"]]
    ELSE IF Catches(f.tool)
    THEN [f EXCEPT !.pc = "returned",
                   !.envelope = [text |-> "error", payload |-> "sentinel"]]
    ELSE [f EXCEPT !.pc = "raised"]

Begin(t, tool) ==
    [t EXCEPT !.tool = tool, !.calls = @ + 1, !.atCall = t.upstream,
              !.failed = FALSE, !.page = 1, !.tags = FALSE,
              !.envelope = NoEnvelope,
              !.inTTL = t.firstOk /\ now < t.firstAt + WrapperTTL(tool)]

\* a handler that goes through cachedDockerHubAPI, up to the fetch
ToolCallCached(tool) ==
    LET hit == InCache(cache, ToolKey) /\ IsFresh(cache[ToolKey], now)
        b == Begin(th, tool)
    IN
    /\ th.pc = "idle"
    /\ th.tool \in {"none", tool}
    /\ th.calls < MaxToolCalls
    /\ CachedAs(tool) # "none"
    /\ GetCallStep(ToolKey, CachedAs(tool), 0)
    /\ th' = IF hit THEN Succeed(b)
             ELSE [b EXCEPT !.pc = "fetch", !.upstream = @ + 1]
    /\ UNCHANGED <<gk, fb, rl>>

ToolFetchOk(p, data) ==
    /\ th.pc = "fetch"
    /\ GetFetchOkStep(p, data)
    /\ th' = Succeed([th EXCEPT !.firstAt = IF th.calls = 1 THEN now ELSE @])
    /\ UNCHANGED <<gk, fb, rl>>

ToolFetchFail(p) ==
    /\ th.pc = "fetch"
    /\ GetFetchFailStep(p)
    /\ th' = IF StaleAvailable(p) THEN Succeed(th) ELSE Fail(th)
    /\ UNCHANGED <<gk, fb, rl>>

\* a handler that calls the operation itself
ToolCallDirect(tool) ==
    /\ th.pc = "idle"
    /\ th.tool \in {"none", tool}
    /\ th.calls < MaxToolCalls
    /\ CachedAs(tool) = "none"
    /\ th' = [Begin(th, tool) EXCEPT !.pc = "op", !.upstream = @ + 1]
    /\ UNCHANGED <<cacheVars, gk, fb, rl>>

\* the operation returned; docker_list_tags adds the names of the page to
\* its tags and asks for the next page while the response names one
ToolOpOk(results, hasNext) ==
    /\ th.pc = "op"
    /\ LET t == [th EXCEPT !.tags = @ \/ (th.tool = "docker_list_tags" /\ results)] IN
       th' = IF th.tool = "docker_list_tags" /\ hasNext /\ th.page < MaxPages
             THEN [t EXCEPT !.page = @ + 1, !.upstream = @ + 1]
             ELSE Succeed([t EXCEPT !.firstAt = IF th.calls = 1 THEN now ELSE @])
    /\ UNCHANGED <<cacheVars, gk, fb, rl>>

ToolOpFail ==
    /\ th.pc = "op"
    /\ th' = Fail(th)
    /\ UNCHANGED <<cacheVars, gk, fb, rl>>

\* docker_search_images: searchMyRepositories settled; its failure is
\* logged and the public results are returned
ToolPrivateSettled ==
    /\ th.pc = "private"
    /\ th' = [th EXCEPT !.pc = "returned",
                        !.envelope = [text |-> "summary",
                                      payload |-> IF th.failed THEN "sentinel" ELSE "data"],
                        !.firstOk = IF th.calls = 1 THEN ~th.failed ELSE @]
    /\ UNCHANGED <<cacheVars, gk, fb, rl>>

\* the caller has the result and may call again
ToolDone ==
    /\ th.pc \in {"returned", "raised"}
    /\ th.calls < MaxToolCalls
    /\ th' = [th EXCEPT !.pc = "idle"]
    /\ UNCHANGED <<cacheVars, gk, fb, rl>>

(***************************************************************************)
(* SpecTool: a tool called up to MaxToolCalls times with the same input.   *)
(***************************************************************************)
InitTool ==
    /\ InitCache(Capacity)
    /\ gk = NoExperiment
    /\ fb = NoCall
    /\ \E e \in BOOLEAN : th = [NoToolCall EXCEPT !.env = e]
    /\ rl = NoLimiter

NextTool ==
    \/ \E tool \in Tools : ToolCallCached(tool)
    \/ \E p \in BagToSet(pending), v \in Vals : ToolFetchOk(p, v)
    \/ \E p \in BagToSet(pending) : ToolFetchFail(p)
    \/ \E tool \in Tools : ToolCallDirect(tool)
    \/ \E results \in BOOLEAN, hasNext \in BOOLEAN : ToolOpOk(results, hasNext)
    \/ ToolOpFail
    \/ ToolPrivateSettled
    \/ ToolDone
    \/ Tick

SpecTool == InitTool /\ [][NextTool]_vars

(***************************************************************************)
(* SpecPreload: preload of lists of several items, each free to fail.      *)
(***************************************************************************)
LongPreloadLists ==
    UNION {[1..n -> [key : Keys, type : PreloadTypes]] : n \in 1..MaxPreloadList}

InitPreload ==
    /\ InitCache(LruCapacity)
    /\ gk = NoExperiment
    /\ fb = NoCall
    /\ th = NoToolCall
    /\ rl = NoLimiter

NextPreload ==
    \/ \E items \in LongPreloadLists : PreloadStart(items)
    \/ \E i \in 1..MaxPreloadList, v \in Vals : PreloadItemOk(i, v)
    \/ \E i \in 1..MaxPreloadList : PreloadItemFail(i)
    \/ Tick

SpecPreload == InitPreload /\ [][NextPreload]_vars

(***************************************************************************)
(* RateLimitManager.  A request is known by its id; each runs one          *)
(* operation, which the server completes or fails.  Times are in ms.       *)
(***************************************************************************)
backoffMultiplier == 2

maxBackoffMs == 30000

\* the delay of the first backoff, `currentBackoffMs === 0 ? 1000 : ...`
firstBackoffMs == 1000

\* the period of the cleanup timer and the age at which it drops a request
cleanupEveryMs == 5 * 60 * 1000

dropAfterMs == 10 * 60 * 1000

hourMs == 60 * 60 * 1000

\* the age beyond which shouldRetry gives up, and its retry limit
retryWithinMs == 60000

maxRetries == 3

RlIds == 1..MaxLimited

\* what an operation can throw: a rate-limit error (429), a network error,
\* anything else
RlErrors == {"rateLimit", "network", "other"}

\* the clock advances by one backoff delay or by one cleanup period
RlClockSteps == {firstBackoffMs, cleanupEveryMs}

Min(a, b) == IF a < b THEN a ELSE b

\* the state after `new RateLimitManager(config)`: processQueue has run once
\* and waits for its timer
NewLimiter ==
    [made |-> TRUE,
     requestQueue |-> <<>>,
     activeRequests |-> 0,
     requestTimestamps |-> <<>>,
     currentBackoffMs |-> 0,
     status |-> [i \in RlIds |-> "none"],
     running |-> {},
     timers |-> <<>>,
     proc |-> [pc |-> "timer", due |-> 0],
     nextCleanup |-> cleanupEveryMs,
     limitedAt |-> 0,
     limitedFor |-> 0,
     now |-> 0,
     steps |-> 0]

\* getHourlyQuotaUsage() < 95, without the division
QuotaLeft(r) ==
    Len(SelectSeq(r.requestTimestamps, LAMBDA t : t > r.now - hourMs)) * 100
        < 95 * maxRequestsPerHour

canExecuteImmediately(r) ==
    /\ r.activeRequests < maxConcurrentRequests
    /\ QuotaLeft(r)
    /\ r.currentBackoffMs = 0
    /\ Len(r.requestQueue) = 0

\* executeWithMonitoring up to `await operation()`
StartOperation(r, request, via) ==
    [r EXCEPT !.activeRequests = @ + 1,
              !.requestTimestamps = Append(@, r.now),
              !.running = @ \cup {[id |-> request.id, via |-> via,
                                   timestamp |-> request.timestamp,
                                   retryCount |-> request.retryCount]},
              !.status = [@ EXCEPT ![request.id] = "running"]]

\* queueRequest: the promise is rejected when the queue is full, and is
\* otherwise left to the queue processor
queueRequestMutUnbounded(r, id) ==
    [r EXCEPT !.requestQueue = Append(@, [id |-> id, timestamp |-> r.now, retryCount |-> 0]),
              !.status = [@ EXCEPT ![id] = "queued"]]
queueRequest(r, id) ==
    IF Len(r.requestQueue) >= queueMaxSize
    THEN [r EXCEPT !.status = [@ EXCEPT ![id] = "rejectedFull"]]
    ELSE [r EXCEPT !.requestQueue =
                       Append(@, [id |-> id, timestamp |-> r.now, retryCount |-> 0]),
                   !.status = [@ EXCEPT ![id] = "queued"]]

\* handleRateLimit: the backoff grows and a timer is set to clear it
handleRateLimit(r) ==
    LET b == Min(IF r.currentBackoffMs = 0 THEN firstBackoffMs
                 ELSE r.currentBackoffMs * backoffMultiplier, maxBackoffMs)
    IN [r EXCEPT !.currentBackoffMs = b,
                 !.timers = Append(@, r.now + b),
                 !.limitedAt = r.now,
                 !.limitedFor = b]

shouldRetry(r, err, request) ==
    /\ request.retryCount < maxRetries
    /\ err \in {"rateLimit", "network"}
    /\ r.now - request.timestamp < retryWithinMs

RlConstruct ==
    /\ ~rl.made
    /\ rl' = NewLimiter
    /\ UNCHANGED <<cacheVars, gk, fb, th>>

\* executeRequest, up to the await of the operation or the queueing
RlExecuteRequest(id) ==
    /\ rl.made
    /\ rl.status[id] = "none"
    /\ rl' = IF canExecuteImmediately(rl)
             THEN StartOperation(rl, [id |-> id, timestamp |-> rl.now, retryCount |-> 0],
                                 "direct")
             ELSE queueRequest(rl, id)
    /\ UNCHANGED <<cacheVars, gk, fb, th>>

\* the operation of a running request resolved
RlOperationOk(x) ==
    /\ rl.made
    /\ x \in rl.running
    /\ rl' = [rl EXCEPT !.running = @ \ {x},
                        !.currentBackoffMs = 0,
                        !.activeRequests = @ - 1,
                        !.status = [@ EXCEPT ![x.id] = "resolved"],
                        !.proc = IF x.via = "queue" THEN [pc |-> "timer", due |-> 0] ELSE @]
    /\ UNCHANGED <<cacheVars, gk, fb, th>>

\* the request the queue processor took, as it was queued
Taken(r, x) == [id |-> x.id, timestamp |-> x.timestamp, retryCount |-> x.retryCount]

\* the operation of a running request rejected: executeRequest queues a
\* rate-limited request and throws any other error; the queue processor
\* puts a request to retry back at the front and waits, or rejects it
RlOperationFail(x, err) ==
    /\ rl.made
    /\ x \in rl.running
    /\ LET r1 == IF err = "rateLimit" THEN handleRateLimit(rl) ELSE rl
           r2 == [r1 EXCEPT !.running = @ \ {x}, !.activeRequests = @ - 1]
       IN rl' = IF x.via = "direct"
                THEN IF err = "rateLimit" THEN queueRequest(r2, x.id)
                     ELSE [r2 EXCEPT !.status = [@ EXCEPT ![x.id] = "rejected"]]
                ELSE IF shouldRetry(r2, err, x)
                THEN [r2 EXCEPT !.requestQueue =
                                    <<[Taken(r2, x) EXCEPT !.retryCount = @ + 1]>> \o @,
                                !.status = [@ EXCEPT ![x.id] = "queued"],
                                !.proc = [pc |-> "delay",
                                          due |-> r2.now + 1000 * (x.retryCount + 1)]]
                ELSE [r2 EXCEPT !.status = [@ EXCEPT ![x.id] = "rejected"],
                                !.proc = [pc |-> "timer", due |-> 0]]
    /\ UNCHANGED <<cacheVars, gk, fb, th>>

\* the timer of the oldest pending handleRateLimit fires
RlBackoffTimer ==
    /\ rl.made
    /\ rl.timers # <<>>
    /\ \E i \in 1..Len(rl.timers) :
          /\ rl.timers[i] <= rl.now
          /\ \A j \in 1..Len(rl.timers) : rl.timers[i] <= rl.timers[j]
          /\ \A j \in 1..(i - 1) : rl.timers[j] # rl.timers[i]
          /\ rl' = [rl EXCEPT !.currentBackoffMs = 0,
                              !.timers = SubSeq(@, 1, i - 1) \o SubSeq(@, i + 1, Len(@))]
    /\ UNCHANGED <<cacheVars, gk, fb, th>>

\* processQueue runs (its timer fired, or its delay ended): while the queue
\* is not empty and canExecuteImmediately() it takes the first request and
\* awaits its operation; otherwise it sets its timer again
RlProcessQueue ==
    /\ rl.made
    /\ \/ rl.proc.pc = "timer"
       \/ rl.proc.pc = "delay" /\ rl.proc.due <= rl.now
    /\ rl' = IF Len(rl.requestQueue) > 0 /\ canExecuteImmediately(rl)
             THEN LET request == Head(rl.requestQueue)
                      r1 == [rl EXCEPT !.requestQueue = Tail(@),
                                       !.proc = [pc |-> "await", due |-> 0]]
                  IN StartOperation(r1, request, "queue")
             ELSE [rl EXCEPT !.proc = [pc |-> "timer", due |-> 0]]
    /\ UNCHANGED <<cacheVars, gk, fb, th>>

\* the cleanup timer fires: old timestamps and old queued requests go
RlCleanup ==
    /\ rl.made
    /\ rl.nextCleanup <= rl.now
    /\ rl' = [rl EXCEPT
                !.requestTimestamps = SelectSeq(@, LAMBDA t : t > rl.now - hourMs),
                !.requestQueue =
                    SelectSeq(@, LAMBDA q : q.timestamp > rl.now - dropAfterMs),
                !.nextCleanup = @ + cleanupEveryMs]
    /\ UNCHANGED <<cacheVars, gk, fb, th>>

\* time passes, once every timer that is due has fired
RlTick(step) ==
    /\ rl.made
    /\ rl.steps < MaxClockSteps
    /\ \A i \in 1..Len(rl.timers) : rl.timers[i] > rl.now
    /\ rl.nextCleanup > rl.now
    /\ rl' = [rl EXCEPT !.now = @ + step, !.steps = @ + 1]
    /\ UNCHANGED <<cacheVars, gk, fb, th>>

InitLimiter ==
    /\ InitCache(Capacity)
    /\ gk = NoExperiment
    /\ fb = NoCall
    /\ th = NoToolCall
    /\ rl = NoLimiter

RlSettle ==
    \E x \in (IF rl.made THEN rl.running ELSE {}) :
        \/ RlOperationOk(x)
        \/ \E err \in RlErrors : RlOperationFail(x, err)

NextLimiter ==
    \/ RlConstruct
    \/ \E id \in RlIds : RlExecuteRequest(id)
    \/ RlSettle
    \/ RlBackoffTimer
    \/ RlProcessQueue
    \/ RlCleanup
    \/ \E step \in RlClockSteps : RlTick(step)

\* the event loop runs every timer that is due and every operation settles
SpecLimiter ==
    /\ InitLimiter
    /\ [][NextLimiter]_vars
    /\ WF_vars(RlSettle)
    /\ WF_vars(RlBackoffTimer)
    /\ WF_vars(RlProcessQueue)
    /\ WF_vars(RlCleanup)

(***************************************************************************)
(* Properties of SmartCache.get                                            *)
(***************************************************************************)
GetStep(k) == ApiGetImageDetails(k) \/ ApiGetManifest(k)

StoredKeys == {k \in AllKeys : InCache(cache, k)}

\* C1: a get never returns the data of an entry that is expired at the
\* moment it returns (now >= timestamp + ttl), unless the fetch of that
\* same call failed (the stale fallback).
C1_NoExpiredReturn ==
    (lastOp.kind \in {"hit", "store", "stale"} /\ lastOp.expired)
        => lastOp.kind = "stale"

\* a hit served from an entry that has aged but not expired
C1_Witness ==
    /\ lastOp.kind = "hit"
    /\ InCache(cache, lastOp.key)
    /\ now > cache[lastOp.key].timestamp
    /\ ~lastOp.expired

\* C2: a get that directly follows a successful get of the same key, with the
\* entry's TTL not elapsed, is a hit: it returns the same value and invokes
\* no fetch (as for two immediate getImageDetails calls).
C2_SecondGetHits ==
    [][\A k \in Keys :
          ( /\ lastOp.kind \in {"store", "hit"}
            /\ lastOp.key = k
            /\ InCache(cache, k)
            /\ ~Expired(cache[k], now)
            /\ GetStep(k) )
          => ( /\ lastOp'.kind = "hit"
               /\ lastOp'.val = lastOp.val
               /\ fetchCalls' = fetchCalls
               /\ pending' = pending )]_vars

\* two gets of a key, one fetch: the second was served from the entry the
\* first one stored through getImageDetails
C2_Witness ==
    /\ lastOp.kind = "hit"
    /\ fetchCalls[lastOp.key] = 1
    /\ stats.totalRequests = 2
    /\ stats.cacheHits = 1
    /\ cache[lastOp.key].ttl = ttlStrategies.imageMetadata

\* C3: a get of a key whose stored entry has expired (now >= timestamp + ttl)
\* invokes the fetch again, and when the fetch succeeds the entry holds the
\* fetched value and the time of the store as its timestamp.
C3_ExpiredRefetch ==
    [][ /\ \A k \in Keys :
              (InCache(cache, k) /\ Expired(cache[k], now) /\ GetStep(k))
              => ( /\ fetchCalls'[k] = fetchCalls[k] + 1
                   /\ lastOp'.kind # "hit" )
        /\ \A p \in BagToSet(pending), v \in Vals :
              GetFetchOk(p, v)
              => ( /\ cache'[p.key].data = v
                   /\ cache'[p.key].timestamp = now
                   /\ lastOp' = Returned("store", p.key, v, FALSE) ) ]_vars

\* the second fetch of a key has replaced its expired entry
C3_Witness ==
    /\ lastOp.kind = "store"
    /\ fetchCalls[lastOp.key] = 2
    /\ cache[lastOp.key].timestamp = now
    /\ now > 0

\* C4: when the fetch of a get fails, the get returns the value of the
\* expired entry it found if that entry is still stored, and it raises,
\* storing nothing, if the key had no entry.
C4_StaleFallback ==
    [][\A p \in BagToSet(pending) :
          GetFetchFail(p)
          => ( /\ (p.cached # NoEntry /\ cache[p.key] = p.cached)
                     => ( /\ lastOp'.kind = "stale"
                          /\ lastOp'.val = p.cached.data )
               /\ (p.cached = NoEntry /\ ~InCache(cache, p.key))
                     => ( /\ lastOp'.kind = "throw"
                          /\ ~InCache(cache', p.key) ) )]_vars

\* a failed fetch answered with the expired entry that is still stored
C4_Witness ==
    /\ lastOp.kind = "stale"
    /\ InCache(cache, lastOp.key)
    /\ cache[lastOp.key].data = lastOp.val
    /\ Expired(cache[lastOp.key], now)

(***************************************************************************)
(* Properties of eviction                                                  *)
(***************************************************************************)
\* C5: in a cache of capacity N filled from construction by N+1 insertions of
\* distinct keys (get misses or set), the first key not being touched again,
\* exactly the first inserted key is absent and the N others are present.
C5_LruEviction ==
    (pure /\ Len(inserted) = config.maxSize + 1)
        => StoredKeys = {inserted[i] : i \in 2..Len(inserted)}

C5_Witness ==
    /\ pure
    /\ Len(inserted) = config.maxSize + 1
    /\ stats.totalRequests > 0

\* C6: the number of stored entries never exceeds maxSize.
C6_SizeBounded == Size(cache) <= config.maxSize

(***************************************************************************)
(* Properties of SmartCache.generateKey                                    *)
(***************************************************************************)
\* C7: generateKey is independent of the order of the properties: for an
\* operation and two params objects that hold the same name-value pairs in
\* different insertion orders, the two keys are equal.
C7_KeyOrderIndependent ==
    (gk.key1 # <<>> /\ gk.key2 # <<>>) => gk.key1 = gk.key2

\* both keys built, from objects of at least two properties whose first
\* properties differ
C7_Witness ==
    /\ gk.key1 # <<>>
    /\ gk.key2 # <<>>
    /\ Len(gk.p1) >= 2
    /\ gk.p1[1].name # gk.p2[1].name
    /\ gk.key1 = gk.key2

(***************************************************************************)
(* Properties of the fallback operations                                   *)
(***************************************************************************)
RetryHeaders == SelectSeq(fb.requests, LAMBDA h : h # NoHeader)

\* the exchange of this call returned a token
TokenIssued == fb.issued # "none" /\ Truthy(fb.issued)

C9Ops ==
    {"getImageDetails", "getManifestDetails", "listRepositoryTags",
     "getDockerHubTagDetails"}

\* C8: when a fallback operation is called with a credential and the
\* unauthenticated attempt answers 200, whatever the body, the credential
\* exchange is never invoked in that call.
C8_NoExchangeOn200 ==
    (Truthy(fb.token) /\ fb.first = 200) => fb.exchanges = 0

\* C9: when the unauthenticated attempt of getImageDetails,
\* getManifestDetails, listRepositoryTags or getDockerHubTagDetails answers
\* 401 and a credential was supplied, the call that has returned invoked the
\* exchange exactly once, made at most one retry and no other request, made
\* the retry exactly when the exchange returned a token, and the retry
\* carried that token.
C9_OneExchangeOneRetry ==
    (fb.pc = "done" /\ fb.op \in C9Ops /\ Truthy(fb.token) /\ fb.first = 401)
        => /\ fb.exchanges = 1
           /\ Len(fb.requests) = 1 + Len(RetryHeaders)
           /\ Len(RetryHeaders) = (IF TokenIssued THEN 1 ELSE 0)
           /\ \A i \in 1..Len(RetryHeaders) : RetryHeaders[i].token = fb.issued
           /\ fb.probes = 0

\* a call answered 401 that exchanged the credential, retried with the
\* token and returned the retry's data
C9_Witness ==
    /\ fb.pc = "done"
    /\ fb.op \in C9Ops
    /\ Truthy(fb.token)
    /\ fb.first = 401
    /\ fb.exchanges = 1
    /\ Len(fb.requests) = 2
    /\ fb.requests[2].token = fb.issued
    /\ fb.result = Data

C11_HandlersCatchAll ==
    /\ th.pc # "raised"
    /\ (th.pc = "returned" /\ th.failed)
           => th.envelope = [text |-> "error", payload |-> "sentinel"]

\* C12: getDockerHubBearerToken sends the bearer form only after the basic
\* form was rejected, returns a token string or null, returns null when
\* both forms fail, and never throws.
C12_BearerTokenNeverThrows ==
    fb.op = "getManifestDetails"
        => /\ (fb.authRequests = 2 => fb.basic = "rejected")
           /\ ~fb.exchangeThrew
           /\ fb.issued \in {"none"} \cup IssuedBearers
           /\ (fb.authRequests = 2 /\ fb.pc = "done" /\ fb.issued # "bearer")
                  => fb.issued = "null"

(***************************************************************************)
(* Properties of SmartCache.preload                                        *)
(***************************************************************************)
\* C13: in a preload, an item whose fn succeeds is stored at once under its
\* key with the TTL of its type, whatever the other items did; an item whose
\* fn fails stores nothing and leaves the other items as they were; preload
\* returns only when every item has settled, and it returns without raising.
C13_PreloadIndependent ==
    [][\A i \in 1..Len(preload) :
          /\ \A v \in Vals :
                PreloadItemOk(i, v)
                    => cache'[preload[i].key] =
                           [data |-> v, timestamp |-> now,
                            ttl |-> ttlStrategies[preload[i].type]]
          /\ PreloadItemFail(i) => (cache' = cache /\ accessOrder' = accessOrder)
          /\ ((\E v \in Vals : PreloadItemOk(i, v)) \/ PreloadItemFail(i))
                => /\ preload' # <<>>
                      => \A j \in 1..Len(preload) :
                            j # i => preload'[j] = preload[j]
                   /\ preload' = <<>>
                      => /\ \A j \in 1..Len(preload) :
                               j # i => preload[j].st # "pending"
                         /\ lastOp'.kind = "preloaded"]_vars

\* a preload of two items has returned: one failed, the other is stored
C13_Witness ==
    /\ lastOp.kind = "preloaded"
    /\ lastOp.val = "some"
    /\ preload = <<>>
    /\ \E k \in Keys : InCache(cache, k) /\ cache[k].ttl = ttlStrategies.tags

(***************************************************************************)
(* Properties of the statistics                                            *)
(***************************************************************************)
\* C14: the entry count getStats() reports is the number of entries the
\* cache holds at that moment, after any sequence of operations.
C14_StatsEntriesCurrent == stats.entries = Size(cache)

DocumentedCached ==
    {"docker_get_image_details", "docker_list_tags", "docker_get_manifest",
     "docker_get_vulnerabilities", "docker_get_dockerfile", "docker_search_images"}

\* C16: for a tool documented as cached, a second call with the same input,
\* made after a successful first call and within the TTL of its data, makes
\* no upstream request.
C16_CachedToolsServeRepeat ==
    (th.tool \in DocumentedCached /\ th.calls = 2 /\ th.inTTL)
        => th.upstream = th.atCall

(***************************************************************************)
(* Properties of the manifest TTL                                          *)
(***************************************************************************)
\* the 30 minutes the documentation gives a manifest, in milliseconds
DocumentedManifestTTL == 30 * 60 * 1000

\* C17: a getManifest call made less than 30 minutes after getManifest
\* stored the manifest of the same namespace/repository/tag is served from
\* the cache without a fetch.
C17_ManifestLive30Min ==
    [][\A k \in Keys :
          ( /\ InCache(cache, k)
            /\ cache[k].ttl = ttlStrategies.manifest
            /\ now < cache[k].timestamp + DocumentedManifestTTL
            /\ ApiGetManifest(k) )
          => ( /\ lastOp'.kind = "hit"
               /\ fetchCalls' = fetchCalls )]_vars

(***************************************************************************)
(* Properties of eviction for histories mixing get and set                 *)
(***************************************************************************)
\* the keys a step removes from the cache, and the keys it adds
Evicted == {k \in AllKeys : InCache(cache, k) /\ ~InCache(cache', k)}

Added == {k \in AllKeys : ~InCache(cache, k) /\ InCache(cache', k)}

\* C18: whenever inserting a new key at capacity evicts an entry, the
\* evicted key is the stored key whose most recent touch (get hit, get
\* store, stale return or direct set) is the oldest.
C18_StrictLru ==
    [][(Size(cache) >= config.maxSize /\ Added # {} /\ Evicted # {})
          => Evicted = {Head(recency)}]_vars

\* a step that stores key k: a direct set, the store of a resolved get, or
\* the store of a resolved preload item
Stores(k) ==
    \/ \E d \in Vals, t \in SetTTLs : Set(k, d, t)
    \/ \E p \in BagToSet(pending), d \in Vals : p.key = k /\ GetFetchOk(p, d)
    \/ \E i \in DOMAIN preload, d \in Vals : preload[i].key = k /\ PreloadItemOk(i, d)

\* C19: a store that updates an existing key, or that inserts below
\* capacity, removes no entry, and an insertion at capacity removes exactly
\* one entry.
C19_EvictionOnlyAtCapacity ==
    [][\A k \in Keys :
          Stores(k) =>
              IF InCache(cache, k) \/ Size(cache) < config.maxSize
              THEN Evicted = {}
              ELSE Cardinality(Evicted) = 1]_vars

(***************************************************************************)
(* Properties of the stale return                                          *)
(***************************************************************************)
\* C20: when the fetch of a get fails, the stale value is returned only if
\* an entry for the key exists in the cache at the moment of the failure.
C20_StaleOnlyIfStored ==
    [][\A p \in BagToSet(pending) :
          (GetFetchFail(p) /\ lastOp'.kind = "stale")
              => InCache(cache, p.key)]_vars

(***************************************************************************)
(* Properties of the bookkeeping under interleaving                        *)
(***************************************************************************)
\* C21: in every state the access-order ledger holds a stamp for exactly
\* the keys that have an entry in the cache map.
C21_LedgerMatchesCache ==
    AOKeys(accessOrder) = StoredKeys

(***************************************************************************)
(* Properties of the failures that are not auth-shaped                     *)
(***************************************************************************)
C22Ops ==
    {"getImageDetails", "getManifestDetails", "listRepositoryTags",
     "getDockerHubTagDetails", "getImageLayers", "estimatePullSize"}

\* C22: when the unauthenticated attempt of a fallback operation fails with
\* 403, 5xx or a network error, the operation throws that error unchanged,
\* makes no credential exchange and sends no request after the failure.
C22_OtherFailuresPropagate ==
    (fb.pc = "done" /\ fb.op \in C22Ops /\ fb.first \in {403, 500, 0})
        => ( /\ fb.result = Thrown("AxiosError", fb.first)
             /\ fb.exchanges = 0
             /\ fb.authRequests = 0
             /\ Len(fb.requests) = fb.atFail )

(***************************************************************************)
(* Properties of a failed fallback                                         *)
(***************************************************************************)
\* the messages that begin with 'Authentication failed'
AuthenticationFailed ==
    {"Authentication failed: Error: Failed to get JWT token",
     "Authentication failed: Error: Failed to get registry bearer token",
     "Authentication failed: Failed to get registry bearer token",
     "Authentication failed: Error: Authentication failed: status - detail",
     "Authentication failed: status - detail",
     "Authentication failed: AxiosError",
     "Authentication failed: TypeError"}

\* the exchange was made and gave no token: it threw or returned none
NoTokenYielded ==
    /\ fb.exchanges > 0
    /\ fb.exchangeThrew \/ (fb.issued # "none" /\ ~Truthy(fb.issued))

\* C23: when the credential exchange yields no token or the authenticated
\* retry fails, the operation throws an error whose message begins with
\* 'Authentication failed', and it sends nothing after that failure: one
\* exchange, and no request for its URL besides the unauthenticated one
\* and the retry that failed.
C23_FailedFallbackWrapped ==
    (fb.pc = "done" /\ fb.op \in C9Ops /\ (NoTokenYielded \/ fb.retryFails > 0))
        => ( /\ fb.result.kind = "error"
             /\ fb.result.msg \in AuthenticationFailed
             /\ fb.exchanges = 1
             /\ fb.retryFails <= 1
             /\ Len(fb.requests) = 1 + fb.retryFails )

(***************************************************************************)
(* Properties of listDockerHubRepositories                                 *)
(***************************************************************************)
\* C24: the first upstream request of listDockerHubRepositories is the
\* unauthenticated listing, and a credential exchange is made only after
\* that listing failed with 401 or 404.
C24_ListReposAnonymousFirst ==
    (fb.op = "listDockerHubRepositories" /\ fb.pc # "idle")
        => ( /\ fb.exchanges > 0 => fb.first \in {401, 404}
             /\ fb.requests # <<>> => fb.requests[1] = NoHeader )

(***************************************************************************)
(* Properties of docker_list_tags                                          *)
(***************************************************************************)
\* C25: when listRepositoryTags throws on any page, docker_list_tags
\* returns (it does not raise) and the payload is the empty list.
C25_ListTagsEmptyOnFailure ==
    (th.tool = "docker_list_tags" /\ th.pc \in {"returned", "raised"} /\ th.failed)
        => (th.pc = "returned" /\ th.envelope.payload = "sentinel")

(***************************************************************************)
(* Properties of the cleanup sweep and has                                 *)
(***************************************************************************)
\* the stored keys whose TTL has elapsed
Elapsed == {k \in AllKeys : InCache(cache, k) /\ Expired(cache[k], now)}

\* C26: a cleanup pass removes all and only the entries whose TTL has
\* elapsed, with their stamps, and leaves every other entry and stamp as
\* it was; has(key) returns true exactly for a key with a live entry.
C26_SweepExact ==
    [][ /\ Cleanup =>
             /\ \A k \in AllKeys :
                    cache'[k] = IF k \in Elapsed THEN NoEntry ELSE cache[k]
             /\ accessOrder' = SelectSeq(accessOrder, LAMBDA e : e.key \notin Elapsed)
        /\ \A k \in Keys :
             Has(k) => (lastOp'.val = "true"
                          <=> (InCache(cache, k) /\ ~Expired(cache[k], now))) ]_vars

\* a pass has removed an elapsed entry and left a live one in place
C26_Witness ==
    /\ lastOp.kind = "cleaned"
    /\ lastOp.val = "some"
    /\ \E k \in Keys : InCache(cache, k) /\ ~Expired(cache[k], now)

(***************************************************************************)
(* Properties of the request counters                                      *)
(***************************************************************************)
\* C30: totalRequests = cacheHits + cacheMisses in every state; a get call
\* adds one to totalRequests and to exactly one of cacheHits and
\* cacheMisses; a get that ends in the stale return was counted as a miss
\* and the return changes no counter.
C30_CountersAddUp ==
    [][ /\ stats.totalRequests = stats.cacheHits + stats.cacheMisses
        /\ stats'.totalRequests = stats'.cacheHits + stats'.cacheMisses
        /\ \A k \in Keys :
             (ApiGetImageDetails(k) \/ ApiGetManifest(k)) =>
                 /\ stats'.totalRequests = stats.totalRequests + 1
                 /\ \/ /\ stats'.cacheHits = stats.cacheHits + 1
                       /\ stats'.cacheMisses = stats.cacheMisses
                       /\ lastOp'.kind = "hit"
                    \/ /\ stats'.cacheHits = stats.cacheHits
                       /\ stats'.cacheMisses = stats.cacheMisses + 1
                       /\ lastOp'.kind # "hit"
        /\ \A p \in BagToSet(pending) :
             (GetFetchFail(p) /\ lastOp'.kind = "stale") =>
                 /\ stats'.cacheHits = stats.cacheHits
                 /\ stats'.cacheMisses = stats.cacheMisses
                 /\ stats'.totalRequests = stats.totalRequests ]_vars

\* two gets of one key, the first stored and the second served stale: two
\* misses and no hit
C30_Witness ==
    /\ lastOp.kind = "stale"
    /\ stats.totalRequests = 2
    /\ stats.cacheMisses = 2
    /\ stats.cacheHits = 0

(***************************************************************************)
(* Properties of the RateLimitManager                                      *)
(***************************************************************************)
\* there is room to execute a request: a free slot, quota left, no backoff
CapacityAllows ==
    /\ rl.made
    /\ rl.activeRequests < maxConcurrentRequests
    /\ QuotaLeft(rl)
    /\ rl.currentBackoffMs = 0

\* C27: no queued request is left pending forever once capacity allows:
\* it never happens that from some moment on a request stays queued, its
\* promise unsettled, while there is room to execute it.
C27_QueuedRequestsSettle ==
    \A id \in RlIds :
        []<>~(CapacityAllows /\ rl.status[id] = "queued")

\* C28: the request queue never holds more than queueMaxSize requests, and
\* a request that arrives at a full queue is rejected and not enqueued.
C28_QueueBounded ==
    rl.made =>
        /\ Len(rl.requestQueue) <= queueMaxSize
        /\ \A id \in RlIds :
              rl.status[id] = "rejectedFull" =>
                  \A i \in 1..Len(rl.requestQueue) : rl.requestQueue[i].id # id

\* a request was rejected by a full queue
C28_Witness ==
    /\ rl.made
    /\ Len(rl.requestQueue) = queueMaxSize
    /\ \E id \in RlIds : rl.status[id] = "rejectedFull"

\* C29: a backoff set by handleRateLimit stays non-zero until its duration
\* has elapsed since that error or an operation completes successfully.
C29_BackoffLastsFull ==
    [][(rl.made /\ rl.currentBackoffMs # 0 /\ rl'.currentBackoffMs = 0)
          => \/ \E x \in rl.running : RlOperationOk(x)
             \/ rl.now >= rl.limitedAt + rl.limitedFor]_vars

====
